---- MODULE Spec2Model ----
(***************************************************************************)
(* arcanalib.graph: the edge-relation algebra (invert, compose, lift) and  *)
(* the Graph container (node index, edge index, derivation wrappers,       *)
(* ontology generator, filtered exporter).                                 *)
(*                                                                         *)
(* Python values are modelled as follows.                                  *)
(*   dict with string keys used as a record (a node, an edge)              *)
(*        -> a function from the keys that are present to their values     *)
(*   dict used as an ordered table (self.nodes, self.edges)                *)
(*        -> a sequence of [key, value] entries with distinct keys, in     *)
(*           insertion order                                               *)
(*   list -> a sequence;  set -> a set;  tuple (a, b) -> <<a, b>>          *)
(*   an optional argument -> <<>> for None, <<v>> for the value v          *)
(***************************************************************************)
EXTENDS Integers, Sequences, FiniteSets, TLC

VARIABLES
    edges1,      \* pure functions: first argument (edge_list of invert)
    edges2,      \* pure functions: second argument of compose / lift
    calls,       \* pure functions: the calls made so far, [fn, new_label]
    out,         \* pure functions: the value returned by the last call
    graph_data,  \* constructor: the raw input handed to Graph(...)
    pc,          \* constructor: "new", then "constructed" or "raised"
    nodes,       \* Graph.nodes
    edges,       \* Graph.edges
    call,        \* Graph: the last method call, with its arguments
    ret,         \* Graph: what the last method call returned or raised
    ncalls       \* Graph: number of derivation calls made so far

vars == <<edges1, edges2, calls, out, graph_data, pc, nodes, edges, call, ret, ncalls>>

(***************************************************************************)
(* Bounds                                                                  *)
(***************************************************************************)
MaxInvLen == 2     \* longest edge list handed to invert
MaxLen == 2        \* longest edge list handed to compose / lift
MaxRawNodes == 2   \* most node records in a raw constructor input
MaxRawEdges == 2   \* most edge records in a raw constructor input
MaxCalls == 2      \* most derivation calls on one Graph
MaxNodes == 2      \* most nodes of a Graph the queries run on
MaxEdges == 2      \* most edges of a Graph the queries run on

(***************************************************************************)
(* Python helpers                                                          *)
(***************************************************************************)
None == <<>>

\* Truthiness of an optional string: None and "" are both falsy.
Truthy(opt) == opt # None /\ opt[1] # ""

SeqsUpTo(S, n) == UNION {[1..k -> S] : k \in 0..n}

Range(s) == {s[i] : i \in DOMAIN s}

\* sep.join(strs)
RECURSIVE Join(_, _)
Join(sep, strs) ==
    IF strs = <<>> THEN ""
    ELSE IF Len(strs) = 1 THEN strs[1]
    ELSE strs[1] \o sep \o Join(sep, Tail(strs))

\* An ordered table (Python dict): a sequence of [key, value] entries.
Keys(d) == {d[i].key : i \in DOMAIN d}

Get(d, k) == d[CHOOSE i \in DOMAIN d : d[i].key = k].value

\* d[k] = v: an existing key keeps its position, a new key goes last.
Put(d, k, v) ==
    IF k \in Keys(d)
    THEN [i \in DOMAIN d |-> IF d[i].key = k THEN [key |-> k, value |-> v] ELSE d[i]]
    ELSE Append(d, [key |-> k, value |-> v])

Values(d) == [i \in DOMAIN d |-> d[i].value]

\* sum(lists, [])
RECURSIVE Concat(_)
Concat(lists) == IF lists = <<>> THEN <<>> ELSE Head(lists) \o Concat(Tail(lists))

\* {**edge, k: v}: edge with the field k set to v.
With(edge, k, v) == [f \in DOMAIN edge \cup {k} |-> IF f = k THEN v ELSE edge[f]]

(***************************************************************************)
(* Edge relation algebra                                                   *)
(***************************************************************************)
prefix == "inv_"

\* edge.get('label', 'edge')
LabelOr(edge, default) == IF "label" \in DOMAIN edge THEN edge["label"] ELSE default

\* A mutation of invert that keeps the direction of every edge.
invert_keeps_direction(edge_list, new_label) ==
    [i \in DOMAIN edge_list |->
        With(edge_list[i], "label",
             IF Truthy(new_label) THEN new_label[1]
             ELSE prefix \o LabelOr(edge_list[i], "edge"))]

invert(edge_list, new_label) ==
    [i \in DOMAIN edge_list |->
        LET edge == edge_list[i] IN
        [f \in DOMAIN edge \cup {"source", "target", "label"} |->
            CASE f = "source" -> edge["target"]
              [] f = "target" -> edge["source"]
              [] f = "label" -> IF Truthy(new_label) THEN new_label[1]
                                ELSE prefix \o LabelOr(edge, "edge")
              [] OTHER -> edge[f]]]

\* The lookup table compose builds from edges2: a later edge with the same
\* source replaces an earlier one.
mapping(es2) ==
    [s \in {es2[i]["source"] : i \in DOMAIN es2} |->
        LET last == CHOOSE i \in DOMAIN es2 :
                        /\ es2[i]["source"] = s
                        /\ \A j \in DOMAIN es2 : es2[j]["source"] = s => j <= i
        IN [target |-> es2[last]["target"], label |-> es2[last]["label"]]]

RECURSIVE composed_edges(_, _, _)
composed_edges(es1, m, new_label) ==
    IF es1 = <<>> THEN <<>>
    ELSE LET edge == Head(es1)
             rest == composed_edges(Tail(es1), m, new_label)
         IN IF edge["target"] \in DOMAIN m
            THEN <<[source |-> edge["source"],
                    target |-> m[edge["target"]].target,
                    label |-> IF Truthy(new_label) THEN new_label[1]
                              ELSE edge["label"] \o "," \o m[edge["target"]].label]>>
                 \o rest
            ELSE rest

compose(es1, es2, new_label) == composed_edges(es1, mapping(es2), new_label)

lift(es1, es2, new_label) ==
    compose(compose(es1, es2, None), invert(es1, None), new_label)

\* The (source, target) pairs of an edge list.
Pairs(es) == {<<es[i]["source"], es[i]["target"]>> : i \in DOMAIN es}

(***************************************************************************)
(* Specification SpecInvert: invert applied, once or repeatedly, to a      *)
(* bounded edge list.                                                      *)
(***************************************************************************)
NodeIds == {"a", "b", "c"}
EdgeLabels == {"contains", "invokes"}
NewLabels == {None, <<"">>, <<"calls">>}

\* Edges handed to invert: source and target, an optional label, an
\* optional further attribute.
InvertInputs ==
    LET ids == {"a", "b"} IN
    UNION {
        {[source |-> s, target |-> t] : s \in ids, t \in ids},
        {[source |-> s, target |-> t, label |-> "contains"] : s \in ids, t \in ids},
        {[source |-> s, target |-> t, label |-> "contains", weight |-> "1"] :
            s \in ids, t \in ids}}

IdleGraph ==
    /\ graph_data = <<>>
    /\ pc = "idle"
    /\ nodes = <<>>
    /\ edges = <<>>
    /\ call = <<>>
    /\ ret = <<>>
    /\ ncalls = 0

IdleAlgebra ==
    /\ edges1 = <<>>
    /\ edges2 = <<>>
    /\ calls = <<>>
    /\ out = <<>>

InitInvert ==
    /\ edges1 \in SeqsUpTo(InvertInputs, MaxInvLen)
    /\ edges2 = <<>>
    /\ calls = <<>>
    /\ out = edges1
    /\ IdleGraph

\* out = invert(out, new_label): the first call inverts edges1, the second
\* its result.
Invert ==
    /\ Len(calls) < 2
    /\ \E new_label \in NewLabels :
        /\ out' = invert(out, new_label)
        /\ calls' = Append(calls, [fn |-> "invert", new_label |-> new_label])
    /\ UNCHANGED <<edges1, edges2, graph_data, pc, nodes, edges, call, ret, ncalls>>

NextInvert == Invert

SpecInvert == InitInvert /\ [][NextInvert]_vars

\* C8: invert(E) has the length of E and its i-th edge is the i-th edge of E
\* with source and target swapped and every attribute other than the label
\* kept; invert(invert(E)) without new_label has at every position the
\* (source, target) pair of E and the label "inv_inv_" + the original label.
C8_InvertSwapsAndRoundTrips ==
    /\ Len(calls) = 1 =>
        /\ Len(out) = Len(edges1)
        /\ \A i \in DOMAIN edges1 :
            /\ out[i]["source"] = edges1[i]["target"]
            /\ out[i]["target"] = edges1[i]["source"]
            /\ DOMAIN edges1[i] \subseteq DOMAIN out[i]
            /\ \A f \in DOMAIN edges1[i] \ {"source", "target", "label"} :
                   out[i][f] = edges1[i][f]
    /\ (Len(calls) = 2 /\ calls[1].new_label = None /\ calls[2].new_label = None) =>
        /\ Len(out) = Len(edges1)
        /\ \A i \in DOMAIN edges1 :
            /\ out[i]["source"] = edges1[i]["source"]
            /\ out[i]["target"] = edges1[i]["target"]
            /\ "label" \in DOMAIN edges1[i] =>
                   out[i]["label"] = "inv_inv_" \o edges1[i]["label"]

\* A two-edge list of labelled, non-loop edges has been inverted twice
\* without new_label.
C8_Witness ==
    /\ Len(calls) = 2 /\ calls[1].new_label = None /\ calls[2].new_label = None
    /\ Len(edges1) = 2
    /\ edges1[1]["source"] # edges1[1]["target"]
    /\ edges1[1] # edges1[2]
    /\ \A i \in DOMAIN edges1 : "label" \in DOMAIN edges1[i]
    /\ out[1]["label"] = "inv_inv_contains"

(***************************************************************************)
(* Specification SpecAlgebra: compose and lift applied to two bounded edge *)
(* lists.                                                                  *)
(***************************************************************************)
AlgebraEdges ==
    {[source |-> s, target |-> t, label |-> l] :
        s \in NodeIds, t \in NodeIds, l \in EdgeLabels}

InitAlgebra ==
    /\ edges1 \in SeqsUpTo(AlgebraEdges, MaxLen)
    /\ edges2 \in SeqsUpTo(AlgebraEdges, MaxLen)
    /\ calls = <<>>
    /\ out = <<>>
    /\ IdleGraph

Compose ==
    /\ calls = <<>>
    /\ \E new_label \in NewLabels :
        /\ out' = compose(edges1, edges2, new_label)
        /\ calls' = <<[fn |-> "compose", new_label |-> new_label]>>
    /\ UNCHANGED <<edges1, edges2, graph_data, pc, nodes, edges, call, ret, ncalls>>

Lift ==
    /\ calls = <<>>
    /\ \E new_label \in NewLabels :
        /\ out' = lift(edges1, edges2, new_label)
        /\ calls' = <<[fn |-> "lift", new_label |-> new_label]>>
    /\ UNCHANGED <<edges1, edges2, graph_data, pc, nodes, edges, call, ret, ncalls>>

NextAlgebra == Compose \/ Lift

SpecAlgebra == InitAlgebra /\ [][NextAlgebra]_vars

\* The relational join of two edge lists.
RelJoin(es1, es2) ==
    {<<p[1], q[2]>> : <<p, q>> \in
        {pq \in Pairs(es1) \X Pairs(es2) : pq[1][2] = pq[2][1]}}

\* C1: the (source, target) pairs of compose(edges1, edges2) are the
\* relational join {(a, c) : (a, b) in edges1 and (b, c) in edges2 for some b}.
C1_ComposeIsRelationalJoin ==
    (calls # <<>> /\ calls[1].fn = "compose") =>
        Pairs(out) = RelJoin(edges1, edges2)

\* C2: lift(edges1, edges2) has an edge parent1 -> parent2 if and only if
\* edges1 has (parent1, c1) and (parent2, c2) with (c1, c2) in edges2.
C2_LiftRelatesParents ==
    (calls # <<>> /\ calls[1].fn = "lift") =>
        Pairs(out) =
            {<<e[1], f[1]>> : <<e, f>> \in
                {ef \in Pairs(edges1) \X Pairs(edges1) :
                    <<ef[1][2], ef[2][2]>> \in Pairs(edges2)}}

(***************************************************************************)
(* Graph.__init__                                                          *)
(***************************************************************************)
RawNodes(graph_data_) == graph_data_["elements"]["nodes"]
RawEdges(graph_data_) == graph_data_["elements"]["edges"]

\* A mutation of NodeKeyError: a node record without labels is refused too.
NodeKeyError_requires_labels(graph_data_) ==
    \E i \in DOMAIN graph_data_["elements"]["nodes"] :
        \/ "id" \notin DOMAIN graph_data_["elements"]["nodes"][i]["data"]
        \/ "labels" \notin DOMAIN graph_data_["elements"]["nodes"][i]["data"]

\* node['data']['id'] raises KeyError for a node record without id.
NodeKeyError(graph_data_) ==
    \E i \in DOMAIN RawNodes(graph_data_) :
        "id" \notin DOMAIN RawNodes(graph_data_)[i]["data"]

\* edge['data']['labels'] raises KeyError for an edge record that has
\* neither label nor labels.
EdgeKeyError(graph_data_) ==
    \E i \in DOMAIN RawEdges(graph_data_) :
        /\ "label" \notin DOMAIN RawEdges(graph_data_)[i]["data"]
        /\ "labels" \notin DOMAIN RawEdges(graph_data_)[i]["data"]

\* {node['data']['id']: node['data'] for node in ...}
RECURSIVE node_index(_, _)
node_index(idx, raw_nodes) ==
    IF raw_nodes = <<>> THEN idx
    ELSE node_index(Put(idx, Head(raw_nodes)["data"]["id"], Head(raw_nodes)["data"]),
                    Tail(raw_nodes))

\* The edge's data once the loop body has run: the label is the given one,
\* or the labels joined with "," and written back into the data.
normalized(data) ==
    IF "label" \in DOMAIN data THEN data
    ELSE With(data, "label", Join(",", data["labels"]))

RECURSIVE edge_index(_, _)
edge_index(idx, raw_edges) ==
    IF raw_edges = <<>> THEN idx
    ELSE LET data == normalized(Head(raw_edges)["data"])
             label == data["label"]
             idx1 == IF label \in Keys(idx) THEN idx ELSE Put(idx, label, <<>>)
         IN edge_index(Put(idx1, label, Append(Get(idx1, label), data)),
                       Tail(raw_edges))

\* The input after the constructor ran: the edge records the loop reached
\* carry the label that was written back.
written_back(graph_data_) ==
    LET raw == RawEdges(graph_data_)
        bad == {i \in DOMAIN raw : /\ "label" \notin DOMAIN raw[i]["data"]
                                   /\ "labels" \notin DOMAIN raw[i]["data"]}
        reached(i) == ~NodeKeyError(graph_data_) /\ \A j \in bad : i < j
    IN [elements |->
            [nodes |-> RawNodes(graph_data_),
             edges |-> [i \in DOMAIN raw |->
                           IF reached(i) THEN [data |-> normalized(raw[i]["data"])]
                           ELSE raw[i]]]]

(***************************************************************************)
(* Specification SpecCtor: Graph(graph_data) on raw inputs, well-formed    *)
(* and malformed.                                                          *)
(***************************************************************************)
RawNodeData ==
    LET ids == {"a", "b"}
        labelss == {<<"class">>, <<"method">>}
    IN UNION {
        {[id |-> n, labels |-> ls] : n \in ids, ls \in labelss},
        {[id |-> n] : n \in ids},
        {[labels |-> ls] : ls \in labelss}}

RawEdgeData ==
    LET ends == UNION {
            {[source |-> "a", target |-> t] : t \in {"a", "b"}},
            {[source |-> "a"], [target |-> "b"]}}
    IN UNION {
        ends,
        {With(e, "label", "contains") : e \in ends},
        {With(e, "labels", <<"contains", "invokes">>) : e \in ends}}

Wrap(datas) == [i \in DOMAIN datas |-> [data |-> datas[i]]]

InitCtor ==
    /\ \E ns \in SeqsUpTo(RawNodeData, MaxRawNodes), es \in SeqsUpTo(RawEdgeData, MaxRawEdges) :
           graph_data = [elements |-> [nodes |-> Wrap(ns), edges |-> Wrap(es)]]
    /\ pc = "new"
    /\ nodes = <<>>
    /\ edges = <<>>
    /\ call = <<>>
    /\ ret = ""
    /\ ncalls = 0
    /\ IdleAlgebra

\* Graph(graph_data): either the object with both indices, or a KeyError
\* and no object.
Construct ==
    /\ pc = "new"
    /\ IF NodeKeyError(graph_data) \/ EdgeKeyError(graph_data)
       THEN /\ pc' = "raised"
            /\ ret' = "KeyError"
            /\ UNCHANGED <<nodes, edges>>
       ELSE /\ pc' = "constructed"
            /\ ret' = "Graph"
            /\ nodes' = node_index(<<>>, RawNodes(graph_data))
            /\ edges' = edge_index(<<>>, RawEdges(graph_data))
    /\ graph_data' = written_back(graph_data)
    /\ UNCHANGED <<edges1, edges2, calls, out, call, ncalls>>

NextCtor == Construct

SpecCtor == InitCtor /\ [][NextCtor]_vars

NodeLacks(graph_data_, field) ==
    \E i \in DOMAIN RawNodes(graph_data_) : field \notin DOMAIN RawNodes(graph_data_)[i]["data"]

EdgeLacks(graph_data_, field) ==
    \E i \in DOMAIN RawEdges(graph_data_) : field \notin DOMAIN RawEdges(graph_data_)[i]["data"]

Malformed(graph_data_) ==
    \/ NodeLacks(graph_data_, "id")
    \/ NodeLacks(graph_data_, "labels")
    \/ EdgeLacks(graph_data_, "source")
    \/ EdgeLacks(graph_data_, "target")
    \/ EdgeKeyError(graph_data_)

\* C6 as stated: construction from an input in which a node lacks id or
\* labels, or an edge lacks source, target or both label and labels, ends in
\* an error and yields no Graph.
C6_MalformedInputRaises ==
    (pc # "new" /\ Malformed(graph_data)) => pc = "raised"

\* C6 amended: construction ends in a KeyError, and yields no Graph, exactly
\* when a node lacks id or an edge lacks both label and labels; every other
\* input, a node without labels or an edge without source or target included,
\* is accepted and indexed in full.
C6_RaisesOnlyOnMissingIdOrLabel ==
    pc # "new" =>
        /\ pc = "raised" <=>
               (NodeLacks(graph_data, "id") \/ EdgeKeyError(graph_data))
        /\ pc = "raised" => (nodes = <<>> /\ edges = <<>> /\ ret = "KeyError")
        /\ pc = "constructed" =>
            /\ Keys(nodes) = {RawNodes(graph_data)[i]["data"]["id"] :
                                 i \in DOMAIN RawNodes(graph_data)}
            /\ Len(Concat(Values(edges))) = Len(RawEdges(graph_data))
            /\ \A i \in DOMAIN RawEdges(graph_data) :
                   RawEdges(graph_data)[i]["data"] \in
                       Range(Get(edges, RawEdges(graph_data)[i]["data"]["label"]))

\* A Graph was constructed from a node without labels and an edge without
\* source.
C6_Witness ==
    /\ pc = "constructed"
    /\ NodeLacks(graph_data, "labels")
    /\ EdgeLacks(graph_data, "source")
    /\ Len(nodes) = 1 /\ Len(edges) = 1

(***************************************************************************)
(* Graph: the derivation wrappers                                          *)
(***************************************************************************)
\* The value of a call that returns None without raising.
ReturnsNone == [raised |-> "", value |-> <<>>]

\* A mutation of invert_edges that stores an empty relation when edge_label
\* is absent.
invert_edges_stores_when_absent(idx, edge_label, new_label) ==
    LET key == IF Truthy(new_label) THEN new_label[1] ELSE "inv_" \o edge_label
    IN Put(idx, key, IF edge_label \in Keys(idx)
                     THEN invert(Get(idx, edge_label), new_label) ELSE <<>>)

\* A mutation of invert_edges that moves the relation to the new label
\* instead of adding it.
invert_edges_moves(idx, edge_label, new_label) ==
    IF edge_label \in Keys(idx)
    THEN LET inverted == invert(Get(idx, edge_label), new_label)
             key == IF Truthy(new_label) THEN new_label[1] ELSE "inv_" \o edge_label
         IN Put(SelectSeq(idx, LAMBDA entry : entry.key # edge_label), key, inverted)
    ELSE idx

\* self.edges after invert_edges(edge_label, new_label).
invert_edges(idx, edge_label, new_label) ==
    IF edge_label \in Keys(idx)
    THEN LET inverted == invert(Get(idx, edge_label), new_label)
             key == IF Truthy(new_label) THEN new_label[1] ELSE "inv_" \o edge_label
         IN Put(idx, key, inverted)
    ELSE idx

\* self.edges after compose_edges(edge_label1, edge_label2, new_label).
compose_edges(idx, edge_label1, edge_label2, new_label) ==
    IF edge_label1 \in Keys(idx) /\ edge_label2 \in Keys(idx)
    THEN LET key == IF Truthy(new_label) THEN new_label[1]
                    ELSE edge_label1 \o "_" \o edge_label2
             composed == compose(Get(idx, edge_label1), Get(idx, edge_label2), <<key>>)
         IN Put(idx, key, composed)
    ELSE idx

\* self.edges after lift_edges(edge_label1, edge_label2, new_label).
lift_edges(idx, edge_label1, edge_label2, new_label) ==
    IF edge_label1 \in Keys(idx) /\ edge_label2 \in Keys(idx)
    THEN LET lifted == lift(Get(idx, edge_label1), Get(idx, edge_label2), new_label)
             key == IF Truthy(new_label) THEN new_label[1]
                    ELSE "lifted_" \o edge_label1 \o "_" \o edge_label2
         IN Put(idx, key, lifted)
    ELSE idx

(***************************************************************************)
(* Specification Spec: a Graph built from part of the sample graph of the  *)
(* test suite, then any sequence of derivation calls.                      *)
(***************************************************************************)
SampleNodes ==
    <<[id |-> "A", labels |-> <<"class">>],
      [id |-> "B", labels |-> <<"class">>],
      [id |-> "A1", labels |-> <<"method">>],
      [id |-> "B1", labels |-> <<"method">>],
      [id |-> "C", labels |-> <<"class">>],
      [id |-> "C1", labels |-> <<"method">>],
      [id |-> "C2", labels |-> <<"method">>]>>

SampleEdges ==
    <<[source |-> "A", target |-> "A1", label |-> "contains"],
      [source |-> "B", target |-> "B1", label |-> "contains"],
      [source |-> "A1", target |-> "B1", label |-> "invokes"],
      [source |-> "C", target |-> "C1", label |-> "contains"],
      [source |-> "C", target |-> "C2", label |-> "contains"],
      [source |-> "C1", target |-> "C2", label |-> "invokes"]>>

\* The elements of s at the positions in keep, in order.
RECURSIVE SubSeq_(_, _, _)
SubSeq_(s, keep, i) ==
    IF i > Len(s) THEN <<>>
    ELSE (IF i \in keep THEN <<s[i]>> ELSE <<>>) \o SubSeq_(s, keep, i + 1)

SubLists(s) == {SubSeq_(s, keep, 1) : keep \in SUBSET DOMAIN s}

Prefixes(s) == {SubSeq(s, 1, n) : n \in 0..Len(s)}

\* The edge lists a Graph is built from: any part of the A/B edges (the
\* fixture of test_lift_contains_invokes) followed by the first C edges.
GraphEdgeLists ==
    {ab \o c : ab \in SubLists(SubSeq(SampleEdges, 1, 3)),
               c \in Prefixes(SubSeq(SampleEdges, 4, 6))}

\* Label arguments of a call: every label of the index, and one that is absent.
LabelArgs == Keys(edges) \cup {"missing"}

DeriveLabels == {None, <<"calls">>}

Init ==
    /\ \E es \in GraphEdgeLists :
        /\ nodes = node_index(<<>>, Wrap(SampleNodes))
        /\ edges = edge_index(<<>>, Wrap(es))
    /\ call = [op |-> "__init__", labels |-> <<>>, new_label |-> None]
    /\ ret = ReturnsNone
    /\ ncalls = 0
    /\ graph_data = <<>>
    /\ pc = "constructed"
    /\ IdleAlgebra

Derived(op, labels, new_label, idx) ==
    /\ ncalls < MaxCalls
    /\ ncalls' = ncalls + 1
    /\ edges' = idx
    /\ call' = [op |-> op, labels |-> labels, new_label |-> new_label]
    /\ ret' = ReturnsNone
    /\ UNCHANGED <<nodes, graph_data, pc, edges1, edges2, calls, out>>

InvertEdges ==
    \E edge_label \in LabelArgs, new_label \in DeriveLabels :
        Derived("invert_edges", <<edge_label>>, new_label,
                invert_edges(edges, edge_label, new_label))

ComposeEdges ==
    \E edge_label1 \in LabelArgs, edge_label2 \in LabelArgs, new_label \in DeriveLabels :
        Derived("compose_edges", <<edge_label1, edge_label2>>, new_label,
                compose_edges(edges, edge_label1, edge_label2, new_label))

LiftEdges ==
    \E edge_label1 \in LabelArgs, edge_label2 \in LabelArgs, new_label \in DeriveLabels :
        Derived("lift_edges", <<edge_label1, edge_label2>>, new_label,
                lift_edges(edges, edge_label1, edge_label2, new_label))

Next == InvertEdges \/ ComposeEdges \/ LiftEdges

Spec == Init /\ [][Next]_vars

Derivations == {"invert_edges", "compose_edges", "lift_edges"}

\* The label under which a derivation call stores its result.
ResultKey(c) ==
    IF Truthy(c.new_label) THEN c.new_label[1]
    ELSE CASE c.op = "invert_edges" -> "inv_" \o c.labels[1]
           [] c.op = "compose_edges" -> c.labels[1] \o "_" \o c.labels[2]
           [] c.op = "lift_edges" -> "lifted_" \o c.labels[1] \o "_" \o c.labels[2]

\* C7: a derivation call one of whose label arguments is absent from the
\* edge index raises nothing and leaves the edge index and the node index as
\* they were.
C7_AbsentLabelIsNoOp ==
    [][(call'.op \in Derivations /\ ~(Range(call'.labels) \subseteq Keys(edges)))
          => (edges' = edges /\ nodes' = nodes /\ ret'.raised = "")]_vars

\* After a derivation that added a relation, a call with an absent label
\* was made.
C7_Witness ==
    /\ call.op \in Derivations
    /\ "missing" \in Range(call.labels)
    /\ ncalls = 2
    /\ Len(edges) = 3
    /\ "calls" \in Keys(edges)

\* C9: every edge stored under key L of the edge index has label L.
C9_StoredEdgesCarryTheirKey ==
    \A i \in DOMAIN edges :
        \A edge \in Range(edges[i].value) : edge["label"] = edges[i].key

\* C10 as stated: a derivation call removes no label and changes the list
\* under no label that was present before the call.
C10_NoStoredListChanges ==
    [][\A i \in DOMAIN edges :
          /\ edges[i].key \in Keys(edges')
          /\ Get(edges', edges[i].key) = edges[i].value]_vars

\* C10 amended: a derivation call removes no label, and changes the list
\* under no label other than the one it stores its result under.
C10_OnlyResultKeyChanges ==
    [][\A i \in DOMAIN edges :
          /\ edges[i].key \in Keys(edges')
          /\ edges[i].key # ResultKey(call') =>
                 Get(edges', edges[i].key) = edges[i].value]_vars

\* Two derivations stored results under "calls", the second replacing the
\* first, and the original relations are still there.
C10_Witness ==
    /\ ncalls = 2
    /\ call.op = "lift_edges" /\ call.labels = <<"contains", "invokes">>
    /\ call.new_label = <<"calls">>
    /\ Keys(edges) = {"contains", "invokes", "calls"}
    /\ Get(edges, "contains") = SubSeq(SampleEdges, 1, 2)
    /\ Pairs(Get(edges, "calls")) = {<<"A", "B">>}

(***************************************************************************)
(* Graph: label queries, ontology generator, filtered exporter             *)
(*                                                                         *)
(* A Python collection that holds strings and tuples side by side is a set *)
(* of tagged values: [str |-> s] for the string s, [tuple |-> <<a, b>>]    *)
(* for the tuple (a, b). A string never equals a tuple.                    *)
(***************************************************************************)
Str(s) == [str |-> s]
Tuple(t) == [tuple |-> t]

\* dict.get(key, default)
GetOr(d, k, default) == IF k \in Keys(d) THEN Get(d, k) ELSE default

\* node.get('labels', []), for a node record or the empty dict.
LabelsOr(node) == IF "labels" \in DOMAIN node THEN node["labels"] ELSE <<>>

\* The nodes one of whose labels is in the collection labels.
filter_nodes_by_labels(nodes_, labels) ==
    SelectSeq(nodes_, LAMBDA entry :
        \E i \in DOMAIN entry.value["labels"] : Str(entry.value["labels"][i]) \in labels)

get_all_node_labels(nodes_) ==
    UNION {Range(nodes_[i].value["labels"]) : i \in DOMAIN nodes_}

get_all_edge_labels(idx) == Keys(idx)

\* [(src_label, tgt_label) for src_label in src_labels for tgt_label in tgt_labels]
get_edge_node_labels(nodes_, edge) ==
    LET src_labels == LabelsOr(GetOr(nodes_, edge["source"], <<>>))
        tgt_labels == LabelsOr(GetOr(nodes_, edge["target"], <<>>))
        n == Len(tgt_labels)
    IN [k \in 1..(Len(src_labels) * n) |->
           <<src_labels[((k - 1) \div n) + 1], tgt_labels[((k - 1) % n) + 1]>>]

\* Defined for an edge_label of the index; any other raises KeyError.
get_source_and_target_labels(nodes_, idx, edge_label) ==
    UNION {Range(get_edge_node_labels(nodes_, Get(idx, edge_label)[i])) :
              i \in DOMAIN Get(idx, edge_label)}

\* generate_ontology hands get_source_and_target_labels the stored edge
\* list where it takes the label; the list is looked up as a key of
\* self.edges, which raises TypeError (a list is unhashable) for the first
\* entry of the index. With an empty index the comprehension has no entry.
generate_ontology(nodes_, idx) ==
    IF idx = <<>>
    THEN [raised |-> "", value |-> <<>>]
    ELSE [raised |-> "TypeError", value |-> <<>>]

\* node_labels is [kind, value]: kind "None"; kind "str" with value <<s>>;
\* kind "list" or "set" with the members in value.
to_dict(nodes_, idx, args, node_labels) ==
    LET included_edge_labels ==
            IF args # <<>> THEN args ELSE [i \in DOMAIN idx |-> idx[i].key]
        is_all == node_labels.kind = "str" /\ node_labels.value = <<"all">>
        involved ==
            {Tuple(p) : p \in UNION {get_source_and_target_labels(nodes_, idx, l) :
                                        l \in Range(included_edge_labels)}}
        included_node_labels ==
            IF is_all THEN {Str(l) : l \in get_all_node_labels(nodes_)}
            ELSE IF node_labels.kind = "str"
                 THEN involved \cup {Str(node_labels.value[1])}
                 ELSE involved
        included_nodes == filter_nodes_by_labels(nodes_, included_node_labels)
        included_edges ==
            SelectSeq(idx, LAMBDA entry : entry.key \in Range(included_edge_labels))
    IN IF ~is_all /\ ~(Range(included_edge_labels) \subseteq Keys(idx))
       THEN [raised |-> "KeyError", value |-> <<>>]
       ELSE IF ~is_all /\ node_labels.kind \in {"list", "set"}
       THEN [raised |-> "TypeError", value |-> <<>>]
       ELSE [raised |-> "",
             value |-> [elements |->
                 [nodes |-> Wrap(Values(included_nodes)),
                  edges |-> Wrap(Concat(Values(included_edges)))]]]

(***************************************************************************)
(* Specification SpecQuery: a Graph built from a bounded well-formed       *)
(* input, then generate_ontology and to_dict calls.                        *)
(***************************************************************************)
QueryNodeData ==
    {[id |-> n, labels |-> ls] :
        n \in {"a", "b"},
        ls \in {<<"class">>, <<"method">>, <<"class", "method">>, <<"file">>}}

QueryEdgeData ==
    {[source |-> s, target |-> t, label |-> l] :
        s \in {"a", "b"}, t \in {"a", "b"}, l \in EdgeLabels}

NodeLabelsArgs ==
    {[kind |-> "None", value |-> <<>>],
     [kind |-> "str", value |-> <<"all">>],
     [kind |-> "str", value |-> <<"file">>],
     [kind |-> "list", value |-> <<"file">>],
     [kind |-> "set", value |-> <<"file">>]}

EdgeLabelArgs == {<<>>, <<"contains">>, <<"contains", "invokes">>}

InitQuery ==
    /\ \E ns \in SeqsUpTo(QueryNodeData, MaxNodes), es \in SeqsUpTo(QueryEdgeData, MaxEdges) :
        /\ nodes = node_index(<<>>, Wrap(ns))
        /\ edges = edge_index(<<>>, Wrap(es))
    /\ call = [op |-> "__init__", args |-> <<>>, node_labels |-> [kind |-> "None", value |-> <<>>]]
    /\ ret = ReturnsNone
    /\ ncalls = 0
    /\ graph_data = <<>>
    /\ pc = "constructed"
    /\ IdleAlgebra

GenerateOntology ==
    /\ call' = [op |-> "generate_ontology", args |-> <<>>,
                node_labels |-> [kind |-> "None", value |-> <<>>]]
    /\ ret' = generate_ontology(nodes, edges)
    /\ UNCHANGED <<nodes, edges, ncalls, graph_data, pc, edges1, edges2, calls, out>>

ToDict ==
    /\ \E args \in EdgeLabelArgs, node_labels \in NodeLabelsArgs :
        /\ call' = [op |-> "to_dict", args |-> args, node_labels |-> node_labels]
        /\ ret' = to_dict(nodes, edges, args, node_labels)
    /\ UNCHANGED <<nodes, edges, ncalls, graph_data, pc, edges1, edges2, calls, out>>

NextQuery == GenerateOntology \/ ToDict

SpecQuery == InitQuery /\ [][NextQuery]_vars

\* The node labels that are the type of an endpoint of an edge stored under
\* one of the given edge labels.
EndpointTypes(labels) ==
    UNION {Range(LabelsOr(GetOr(nodes, edge[end], <<>>))) :
              edge \in UNION {Range(edges[i].value) :
                                 i \in {j \in DOMAIN edges : edges[j].key \in labels}},
              end \in {"source", "target"}}

\* The data of the nodes one of whose labels is in the set types.
NodesTyped(types) ==
    {nodes[i].value : i \in {j \in DOMAIN nodes :
                                Range(nodes[j].value["labels"]) \cap types # {}}}

Returned(field) == {ret.value["elements"][field][i]["data"] :
                       i \in DOMAIN ret.value["elements"][field]}

\* C3: generate_ontology() returns the mapping from every label L of the
\* edge index to the set of (s, t) such that an edge under L has a source
\* node carrying s and a target node carrying t.
C3_OntologyMapsEveryLabel ==
    call.op = "generate_ontology" =>
        /\ ret.raised = ""
        /\ Keys(ret.value) = Keys(edges)
        /\ \A L \in Keys(edges) :
               Get(ret.value, L) = get_source_and_target_labels(nodes, edges, L)

\* C4: to_dict() without arguments returns every edge of the index and
\* exactly the nodes that carry a label that is an endpoint type of an edge.
C4_ToDictKeepsEndpointTypedNodes ==
    (call.op = "to_dict" /\ call.args = <<>> /\ call.node_labels.kind = "None") =>
        /\ ret.raised = ""
        /\ Returned("edges") = UNION {Range(edges[i].value) : i \in DOMAIN edges}
        /\ Returned("nodes") = NodesTyped(EndpointTypes(Keys(edges)))

\* C5: to_dict(..., node_labels=X) returns without error; for a label
\* string X the nodes are those with a label among the endpoint types or X,
\* for a list or set X those with a label among the endpoint types or in X.
C5_ToDictAcceptsEveryShape ==
    (/\ call.op = "to_dict"
     /\ call.node_labels.kind # "None"
     /\ call.node_labels.value # <<"all">>
     /\ Range(call.args) \subseteq Keys(edges)) =>
        /\ ret.raised = ""
        /\ Returned("nodes") =
               NodesTyped(EndpointTypes(IF call.args = <<>> THEN Keys(edges)
                                        ELSE Range(call.args))
                          \cup Range(call.node_labels.value))

====
